---------------------------- MODULE Spec2Model ----------------------------
(***************************************************************************)
(* Model of the two Directions hooks of docs/scripts:                      *)
(*   doc-suggester.py   the keyword router (find_matching_doc)             *)
(*   session-start.py   the project-state extractor and context composer   *)
(*                                                                         *)
(* A Python str is a sequence of one-character strings, so that lower(),   *)
(* strip(), split(), startswith(), the regular expression \b and the       *)
(* f-strings are computed character by character.  An Optional value is    *)
(* None (the empty tuple) or Some(x) (the one-element tuple).              *)
(***************************************************************************)
EXTENDS Integers, Sequences, FiniteSets, TLC

VARIABLES
    prompt,          \* doc-suggester: the prompt handed to find_matching_doc
    match,           \* doc-suggester: what find_matching_doc returned
    rpc,             \* doc-suggester: position of the router
    fs,              \* session-start: the files the hook runs against
    state_content,   \* build_context_message: what read_file_safely returned
    phase,           \* build_context_message: extract_current_phase's result
    focus,           \* build_context_message: extract_current_focus's result
    lines,           \* extract_blockers: content.split("\n")
    idx,             \* extract_blockers: index of the line the loop is at
    in_blockers,     \* extract_blockers: the blocker-mode flag
    blockers,        \* extract_blockers: the list being built
    latest_session,  \* build_context_message: the name get_latest_session returned
    session_summary, \* build_context_message: the summary get_latest_session returned
    parts,           \* build_context_message: the message parts
    result,          \* main: the dict to print
    stdout,          \* session-start: the objects printed
    pc               \* session-start: position of the hook

routerVars  == <<prompt, match, rpc>>
extractVars == <<phase, focus, lines, idx, in_blockers, blockers>>
sessionVars == <<fs, state_content, latest_session, session_summary, parts, result, stdout>>
vars == <<routerVars, extractVars, sessionVars, pc>>

None == <<>>
Some(x) == <<x>>

(***************************************************************************)
(* str primitives                                                          *)
(***************************************************************************)
UpperCase == <<"A", "B", "C", "D", "E", "F", "G", "H", "I", "J", "K", "L", "M", "N", "O", "P",
    "Q", "R", "S", "T", "U", "V", "W", "X", "Y", "Z">>
LowerCase == <<"a", "b", "c", "d", "e", "f", "g", "h", "i", "j", "k", "l", "m", "n", "o", "p",
    "q", "r", "s", "t", "u", "v", "w", "x", "y", "z">>
Digits == <<"0", "1", "2", "3", "4", "5", "6", "7", "8", "9">>

\* The character U+0060, which the parser does not read inside a string literal.
Backquote == "<backquote>"

Range(s) == {s[i] : i \in 1..Len(s)}

IndexOf(s, c) == CHOOSE i \in 1..Len(s) : s[i] = c

\* The lower-case letter of each upper-case letter.
LowerOf == [c \in Range(UpperCase) |-> LowerCase[IndexOf(UpperCase, c)]]

\* str.lower() on one character: A-Z map to a-z, everything else is kept.
LowerChar(c) == IF c \in DOMAIN LowerOf THEN LowerOf[c] ELSE c

\* A lower() that forgets to fold the case.
lower_identity(s) == s

\* str.lower()
lower(s) == [i \in 1..Len(s) |-> LowerChar(s[i])]

\* The characters str.strip() removes by default.
Whitespace == {" ", "\t", "\n", "\r", "\f"}

RECURSIVE lstrip_chars(_, _)
\* str.lstrip(chars): drop leading characters that are in chars.
lstrip_chars(s, chars) ==
    IF s # <<>> /\ Head(s) \in chars THEN lstrip_chars(Tail(s), chars) ELSE s

RECURSIVE rstrip_chars(_, _)
\* str.rstrip(chars)
rstrip_chars(s, chars) ==
    IF s # <<>> /\ s[Len(s)] \in chars
    THEN rstrip_chars(SubSeq(s, 1, Len(s) - 1), chars)
    ELSE s

\* str.strip(chars)
strip_chars(s, chars) == rstrip_chars(lstrip_chars(s, chars), chars)

\* str.strip()
strip(s) == strip_chars(s, Whitespace)

\* str.startswith(prefix)
startswith(s, prefix) ==
    Len(s) >= Len(prefix) /\ SubSeq(s, 1, Len(prefix)) = prefix

\* the slice s[i : i + len(sub)] equals sub (i is 1-based)
OccursAt(sub, s, i) == SubSeq(s, i, i + Len(sub) - 1) = sub

\* sub in s
Contains(sub, s) == \E i \in 1..(Len(s) - Len(sub) + 1) : OccursAt(sub, s, i)

\* s.split(sep, 1)[1] for a one-character sep that occurs in s
AfterFirst(s, sep) ==
    LET i == CHOOSE k \in 1..Len(s) : s[k] = sep /\ \A j \in 1..(k - 1) : s[j] # sep
    IN  SubSeq(s, i + 1, Len(s))

RECURSIVE split(_, _)
\* s.split(sep) for a one-character sep; "".split(sep) is [""]
split(s, sep) ==
    IF \E k \in 1..Len(s) : s[k] = sep
    THEN LET i == CHOOSE k \in 1..Len(s) : s[k] = sep /\ \A j \in 1..(k - 1) : s[j] # sep
         IN  <<SubSeq(s, 1, i - 1)>> \o split(SubSeq(s, i + 1, Len(s)), sep)
    ELSE <<s>>

RECURSIVE join(_, _)
\* sep.join(items)
join(sep, items) ==
    IF items = <<>> THEN <<>>
    ELSE IF Len(items) = 1 THEN items[1]
    ELSE items[1] \o sep \o join(sep, Tail(items))

(***************************************************************************)
(* doc-suggester.py                                                        *)
(***************************************************************************)
DOC_MAPPINGS == <<
    [keywords |-> << <<"c", "o", "o", "r", "d", "i", "n", "a", "t", "e">>, <<"p", "o", "s", "i",
        "t", "i", "o", "n">>, <<"f", "r", "a", "m", "e">>, <<"b", "o", "u", "n", "d", "s">>,
        <<"c", "g", "p", "o", "i", "n", "t">>,
                     <<"c", "g", "r", "e", "c", "t">>, <<"o", "r", "i", "g", "i", "n">>, <<"a",
                         "n", "c", "h", "o", "r">> >>,
     doc |-> "21_coordinate-systems.md"],
    [keywords |-> << <<"n", "o", "t", " ", "u", "p", "d", "a", "t", "i", "n", "g">>, <<"n", "o",
        "t", " ", "r", "e", "f", "r", "e", "s", "h", "i", "n", "g">>, <<"s", "t", "a", "t", "e",
        " ", "n", "o", "t", " ", "c", "h", "a", "n", "g", "i", "n", "g">>,
                     <<"o", "b", "s", "e", "r", "v", "a", "b", "l", "e", "o", "b", "j", "e",
                         "c", "t">>, <<"@", "s", "t", "a", "t", "e">>, <<"@", "b", "i", "n",
                         "d", "i", "n", "g">>, <<"p", "u", "b", "l", "i", "s", "h", "e", "d">>,
                     <<"v", "i", "e", "w", " ", "u", "p", "d", "a", "t", "e">>, <<"r", "e", "f",
                         "r", "e", "s", "h", " ", "v", "i", "e", "w">>, <<"r", "e", "d", "r",
                         "a", "w">> >>,
     doc |-> "20_swiftui-gotchas.md"],
    [keywords |-> << <<"s", "a", "n", "d", "b", "o", "x">>, <<"b", "o", "o", "k", "m", "a", "r",
        "k">>, <<"e", "n", "t", "i", "t", "l", "e", "m", "e", "n", "t">>, <<"s", "e", "c", "u",
        "r", "i", "t", "y", "-", "s", "c", "o", "p", "e", "d">>,
                     <<"a", "p", "p", " ", "s", "a", "n", "d", "b", "o", "x">>, <<"f", "i", "l",
                         "e", " ", "a", "c", "c", "e", "s", "s">>, <<"p", "e", "r", "m", "i",
                         "s", "s", "i", "o", "n">> >>,
     doc |-> "22_macos-platform.md"],
    [keywords |-> << <<"d", "e", "b", "u", "g">>, <<"b", "u", "g">>, <<"b", "r", "o", "k", "e",
        "n">>, <<"n", "o", "t", " ", "w", "o", "r", "k", "i", "n", "g">>, <<"c", "r", "a", "s",
        "h">>,
                     <<"e", "r", "r", "o", "r">>, <<"i", "s", "s", "u", "e">>, <<"p", "r", "o",
                         "b", "l", "e", "m">> >>,
     doc |-> "31_debugging.md"],
    [keywords |-> << <<"s", "h", "i", "p">>, <<"r", "e", "l", "e", "a", "s", "e">>, <<"p", "r",
        "o", "d", "u", "c", "t", "i", "o", "n">>, <<"d", "e", "p", "l", "o", "y">>, <<"p", "u",
        "b", "l", "i", "s", "h">>,
                     <<"a", "p", "p", " ", "s", "t", "o", "r", "e">>, <<"t", "e", "s", "t", "f",
                         "l", "i", "g", "h", "t">> >>,
     doc |-> "30_production-checklist.md"],
    [keywords |-> << <<"t", "y", "p", "o", "g", "r", "a", "p", "h", "y">>, <<"f", "o", "n",
        "t">>, <<"t", "e", "x", "t", " ", "s", "t", "y", "l", "e">>, <<"s", "f", " ", "p", "r",
        "o">>,
                     <<"d", "y", "n", "a", "m", "i", "c", " ", "t", "y", "p", "e">> >>,
     doc |-> "40_typography.md"],
    [keywords |-> << <<"g", "i", "t">>, <<"c", "o", "m", "m", "i", "t">>, <<"b", "r", "a", "n",
        "c", "h">>, <<"m", "e", "r", "g", "e">>, <<"p", "u", "l", "l", " ", "r", "e", "q", "u",
        "e", "s", "t">>, <<"p", "r">> >>,
     doc |-> "32_git-workflow.md"],
    [keywords |-> << <<"a", "r", "c", "h", "i", "t", "e", "c", "t", "u", "r", "e">>, <<"d", "e",
        "s", "i", "g", "n", " ", "d", "e", "c", "i", "s", "i", "o", "n">>, <<"p", "a", "t", "t",
        "e", "r", "n">>, <<"s", "t", "r", "u", "c", "t", "u", "r", "e">>,
                     <<"a", "p", "p", "r", "o", "a", "c", "h">> >>,
     doc |-> "04_architecture-decisions.md"],
    [keywords |-> << <<"n", "e", "w", " ", "p", "r", "o", "j", "e", "c", "t">>, <<"s", "t", "a",
        "r", "t">>, <<"s", "c", "a", "f", "f", "o", "l", "d">>, <<"s", "e", "t", "u", "p">>,
        <<"i", "n", "i", "t", "i", "a", "l", "i", "z", "e">> >>,
     doc |-> "10_new-project.md"],
    [keywords |-> << <<"p", "l", "a", "n">>, <<"p", "l", "a", "n", "n", "i", "n", "g">>, <<"r",
        "o", "a", "d", "m", "a", "p">>, <<"s", "c", "o", "p", "e">>, <<"e", "s", "t", "i", "m",
        "a", "t", "e">> >>,
     doc |-> "51_planning-patterns.md"],
    [keywords |-> << <<"w", "e", "b">>, <<"h", "t", "m", "l">>, <<"c", "s", "s">>, <<"j", "a",
        "v", "a", "s", "c", "r", "i", "p", "t">>, <<"b", "r", "o", "w", "s", "e", "r">>,
                     <<"r", "e", "s", "p", "o", "n", "s", "i", "v", "e">> >>,
     doc |-> "24_web-gotchas.md"],
    [keywords |-> << <<"b", "u", "t", "t", "o", "n">>, <<"m", "e", "n", "u">>, <<"t", "o", "o",
        "l", "b", "a", "r">>, <<"s", "i", "d", "e", "b", "a", "r">>, <<"n", "a", "v", "i", "g",
        "a", "t", "i", "o", "n">>,
                     <<"t", "a", "b">>, <<"m", "o", "d", "a", "l">>, <<"s", "h", "e", "e",
                         "t">> >>,
     doc |-> "41_apple-ui.md"]
>>

\* The keyword length up to which a keyword is matched with \b on both sides.
ShortKeywordLen == 4

\* The characters \w of the re module matches, among those the model uses.
WordChars == Range(UpperCase) \cup Range(LowerCase) \cup Range(Digits) \cup {"_"}

IsWordChar(c) == c \in WordChars

\* \b holds between s[k] and s[k+1] (k = 0 and k = Len(s) are the string's edges):
\* exactly one of the two sides is a word character.
WordBoundary(s, k) ==
    LET before == k >= 1 /\ IsWordChar(s[k])
        after  == k < Len(s) /\ IsWordChar(s[k + 1])
    IN  before # after

\* A search that forgets the closing \b.
re_search_no_closing_boundary(keyword, s) ==
    \E i \in 1..(Len(s) - Len(keyword) + 1) :
        WordBoundary(s, i - 1) /\ OccursAt(keyword, s, i)

\* re.search(r'\b' + re.escape(keyword) + r'\b', s) finds a match
re_search_bounded(keyword, s) ==
    \E i \in 1..(Len(s) - Len(keyword) + 1) :
        /\ WordBoundary(s, i - 1)
        /\ OccursAt(keyword, s, i)
        /\ WordBoundary(s, i + Len(keyword) - 1)

\* One keyword of the inner loop: the test that makes the function return.
KeywordHit(keyword, prompt_lower) ==
    IF Len(keyword) <= ShortKeywordLen
    THEN re_search_bounded(keyword, prompt_lower)
    ELSE Contains(keyword, prompt_lower)

RECURSIVE ScanKeywords(_, _, _)
\* for keyword in mapping["keywords"], from the k-th on: does one of them return?
ScanKeywords(keywords, k, prompt_lower) ==
    IF k > Len(keywords) THEN FALSE
    ELSE IF KeywordHit(keywords[k], prompt_lower) THEN TRUE
    ELSE ScanKeywords(keywords, k + 1, prompt_lower)

RECURSIVE ScanMappingsBackwards(_, _)
\* A scan that walks the table from its end.
ScanMappingsBackwards(r, prompt_lower) ==
    LET q == Len(DOC_MAPPINGS) + 1 - r
    IN  IF r > Len(DOC_MAPPINGS) THEN None
        ELSE IF ScanKeywords(DOC_MAPPINGS[q].keywords, 1, prompt_lower)
             THEN Some(DOC_MAPPINGS[q])
             ELSE ScanMappingsBackwards(r + 1, prompt_lower)

RECURSIVE ScanMappings(_, _)
\* for mapping in DOC_MAPPINGS, from the r-th on: the first mapping that returns
ScanMappings(r, prompt_lower) ==
    IF r > Len(DOC_MAPPINGS) THEN None
    ELSE IF ScanKeywords(DOC_MAPPINGS[r].keywords, 1, prompt_lower)
         THEN Some(DOC_MAPPINGS[r])
         ELSE ScanMappings(r + 1, prompt_lower)

find_matching_doc(p) == ScanMappings(1, lower(p))

\* Prompts are made of these pieces.
Fragments == { <<"c", "r", "a", "s", "h">>, <<"C", "r", "A", "s", "H">>, <<"p", "r">>, <<"a",
    "y">>, <<" ">>, <<"_">>, <<"p", "o", "s", "i", "t", "i", "o", "n">>, <<"g", "i", "t">> }

\* The most pieces a prompt is made of.
MaxFragments == 3

RECURSIVE PromptsUpTo(_)
PromptsUpTo(n) ==
    IF n = 0 THEN {<<>>}
    ELSE LET shorter == PromptsUpTo(n - 1)
         IN  shorter \cup {p \o f : p \in shorter, f \in Fragments}

Prompts == PromptsUpTo(MaxFragments)

RouterInit ==
    /\ prompt \in Prompts
    /\ match = None
    /\ rpc = "called"

\* match = find_matching_doc(prompt)
FindMatchingDoc ==
    /\ rpc = "called"
    /\ match' = find_matching_doc(prompt)
    /\ rpc' = "returned"
    /\ UNCHANGED <<prompt, extractVars, sessionVars, pc>>

(***************************************************************************)
(* session-start.py: the extractors                                        *)
(***************************************************************************)
\* line.split(":", 1)[1].strip().strip("*")
LabelValue(line) == strip_chars(strip(AfterFirst(line, ":")), {"*"})

\* line.split(":", 1)[1].strip() if ":" in line else None
PhraseValue(line) ==
    IF Contains(<<":">>, line) THEN Some(strip(AfterFirst(line, ":"))) ELSE None

RECURSIVE ScanField(_, _, _, _, _)
\* The loop of extract_current_phase / extract_current_focus from line i on:
\* the first line that is a literal-label line or a phrase line decides.
ScanField(ls, i, bold, plain, phrase) ==
    IF i > Len(ls) THEN None
    ELSE IF startswith(ls[i], bold) \/ startswith(ls[i], plain)
         THEN Some(LabelValue(ls[i]))
    ELSE IF Contains(phrase, lower(ls[i]))
         THEN PhraseValue(ls[i])
    ELSE ScanField(ls, i + 1, bold, plain, phrase)

extract_current_phase(text) ==
    ScanField(split(text, "\n"), 1, <<"*", "*", "P", "h", "a", "s", "e", ":", "*", "*">>, <<"P",
        "h", "a", "s", "e", ":">>, <<"c", "u", "r", "r", "e", "n", "t", " ", "p", "h", "a", "s",
        "e">>)

extract_current_focus(text) ==
    ScanField(split(text, "\n"), 1, <<"*", "*", "F", "o", "c", "u", "s", ":", "*", "*">>, <<"F",
        "o", "c", "u", "s", ":">>, <<"c", "u", "r", "r", "e", "n", "t", " ", "f", "o", "c", "u",
        "s">>)

\* "blocker" in line.lower() and "#" in line
IsTrigger(line) == Contains(<<"b", "l", "o", "c", "k", "e", "r">>,
    lower(line)) /\ Contains(<<"#">>, line)

\* A heading test that lets the loop run on past every heading.
IsHeadingNever(line) == FALSE

\* line.startswith("#")
IsHeading(line) == startswith(line, <<"#">>)

\* line.strip().startswith("-") or line.strip().startswith("*")
IsBullet(line) == startswith(strip(line), <<"-">>) \/ startswith(strip(line), <<"*">>)

\* line.strip().lstrip("-*").strip()
BulletValue(line) == strip(lstrip_chars(strip(line), {"-", "*"}))

\* A filter that compares with "none" without folding the case.
KeepBlockerCaseSensitive(blocker) == blocker # <<>> /\ blocker # <<"n", "o", "n", "e">>

\* blocker and blocker.lower() != "none"
KeepBlocker(blocker) == blocker # <<>> /\ lower(blocker) # <<"n", "o", "n", "e">>

\* phase = extract_current_phase(state_content)
ExtractPhase ==
    /\ pc = "phase"
    /\ phase' = extract_current_phase(state_content[1])
    /\ pc' = "focus"
    /\ UNCHANGED <<focus, lines, idx, in_blockers, blockers, routerVars, sessionVars>>

\* focus = extract_current_focus(state_content)
ExtractFocus ==
    /\ pc = "focus"
    /\ focus' = extract_current_focus(state_content[1])
    /\ pc' = "blockers"
    /\ UNCHANGED <<phase, lines, idx, in_blockers, blockers, routerVars, sessionVars>>

\* extract_blockers is entered: blockers = [], in_blockers = False, the lines are split
BlockersBegin ==
    /\ pc = "blockers"
    /\ lines' = split(state_content[1], "\n")
    /\ idx' = 1
    /\ in_blockers' = FALSE
    /\ blockers' = <<>>
    /\ pc' = "loop"
    /\ UNCHANGED <<phase, focus, routerVars, sessionVars>>

\* A trigger line: enter (or stay in) blocker mode and continue
TriggerLine ==
    /\ pc = "loop" /\ idx <= Len(lines)
    /\ IsTrigger(lines[idx])
    /\ in_blockers' = TRUE
    /\ idx' = idx + 1
    /\ UNCHANGED <<phase, focus, lines, blockers, pc, routerVars, sessionVars>>

\* A heading line in blocker mode: break
HeadingBreak ==
    /\ pc = "loop" /\ idx <= Len(lines)
    /\ ~IsTrigger(lines[idx])
    /\ in_blockers /\ IsHeading(lines[idx])
    /\ pc' = "session"
    /\ UNCHANGED <<phase, focus, lines, idx, in_blockers, blockers, routerVars, sessionVars>>

\* A bullet line in blocker mode: append its value unless it is empty or "none"
BulletLine ==
    /\ pc = "loop" /\ idx <= Len(lines)
    /\ ~IsTrigger(lines[idx])
    /\ in_blockers /\ ~IsHeading(lines[idx])
    /\ IsBullet(lines[idx])
    /\ LET blocker == BulletValue(lines[idx])
       IN  blockers' = IF KeepBlocker(blocker) THEN Append(blockers, blocker) ELSE blockers
    /\ idx' = idx + 1
    /\ UNCHANGED <<phase, focus, lines, in_blockers, pc, routerVars, sessionVars>>

\* Any other line: next iteration
OtherLine ==
    /\ pc = "loop" /\ idx <= Len(lines)
    /\ ~IsTrigger(lines[idx])
    /\ \/ ~in_blockers
       \/ in_blockers /\ ~IsHeading(lines[idx]) /\ ~IsBullet(lines[idx])
    /\ idx' = idx + 1
    /\ UNCHANGED <<phase, focus, lines, in_blockers, blockers, pc, routerVars, sessionVars>>

\* The lines are exhausted
LoopEnd ==
    /\ pc = "loop" /\ idx > Len(lines)
    /\ pc' = "session"
    /\ UNCHANGED <<phase, focus, lines, idx, in_blockers, blockers, routerVars, sessionVars>>

ExtractStep ==
    \/ ExtractPhase
    \/ ExtractFocus
    \/ BlockersBegin
    \/ TriggerLine
    \/ HeadingBreak
    \/ BulletLine
    \/ OtherLine
    \/ LoopEnd

(***************************************************************************)
(* session-start.py: the files, the session log and the message            *)
(***************************************************************************)
\* Path.read_text(encoding="utf-8") ends in one of these ways:
\*   ok           the text is returned
\*   missing      FileNotFoundError
\*   denied       PermissionError
\*   undecodable  UnicodeDecodeError (the bytes are no UTF-8)
FileStatus == {"ok", "missing", "denied", "undecodable"}

\* A read_file_safely that catches FileNotFoundError only.
read_file_safely_not_found_only(file) ==
    CASE file.status = "ok"      -> [raised |-> FALSE, value |-> Some(file.text)]
      [] file.status = "missing" -> [raised |-> FALSE, value |-> None]
      [] OTHER                   -> [raised |-> TRUE,  value |-> None]

\* read_file_safely: the text, None for the two exceptions it catches, and any
\* other exception leaves the function.
read_file_safely(file) ==
    CASE file.status = "ok"                    -> [raised |-> FALSE, value |-> Some(file.text)]
      [] file.status \in {"missing", "denied"} -> [raised |-> FALSE, value |-> None]
      [] OTHER                                 -> [raised |-> TRUE,  value |-> None]

\* The truth value of an Optional[str]: neither None nor "".
Truthy(opt) == opt # None /\ opt[1] # <<>>

\* ord(c), on the characters of the file names
CodePoint(c) ==
    CASE c \in Range(Digits)    -> 47 + IndexOf(Digits, c)
      [] c \in Range(UpperCase) -> 64 + IndexOf(UpperCase, c)
      [] c \in Range(LowerCase) -> 96 + IndexOf(LowerCase, c)
      [] c = " " -> 32
      [] c = "-" -> 45
      [] c = "." -> 46
      [] c = "_" -> 95

RECURSIVE StrLess(_, _)
\* a < b on str: the first differing character decides, a proper prefix is smaller.
StrLess(a, b) ==
    IF b = <<>> THEN FALSE
    ELSE IF a = <<>> THEN TRUE
    ELSE IF Head(a) # Head(b) THEN CodePoint(Head(a)) < CodePoint(Head(b))
    ELSE StrLess(Tail(a), Tail(b))

\* str.endswith(suffix)
endswith(s, suffix) ==
    Len(s) >= Len(suffix) /\ SubSeq(s, Len(s) - Len(suffix) + 1, Len(s)) = suffix

\* A filter that keeps _index.md among the session files.
SessionFilesWithIndex(names) == {f \in names : endswith(f, <<".", "m", "d">>)}

\* [f for f in sessions_dir.glob("*.md") if f.name != "_index.md"]
SessionFiles(names) == {f \in names : endswith(f, <<".", "m", "d">>) /\ f # <<"_", "i", "n",
    "d", "e", "x", ".", "m", "d">>}

\* sorted(files)[0]: the sort without reverse=True.
LatestOfAscending(files) == CHOOSE f \in files : \A g \in files : g = f \/ StrLess(f, g)

\* sorted(files, reverse=True)[0]
LatestOf(files) == CHOOSE f \in files : \A g \in files : g = f \/ StrLess(g, f)

\* The line length a summary must exceed.
SummaryMinLen == 10

\* The line length from which a summary is cut.
SummaryMaxLen == 100

RECURSIVE FirstSummary(_, _)
\* The loop of lines 88-92 from line i on.
FirstSummary(ls, i) ==
    IF i > Len(ls) THEN None
    ELSE LET line == strip(ls[i])
         IN  IF line # <<>> /\ ~startswith(line, <<"#">>) /\ Len(line) > SummaryMinLen
             THEN IF Len(line) > SummaryMaxLen
                  THEN Some(SubSeq(line, 1, SummaryMaxLen) \o <<".", ".", ".">>)
                  ELSE Some(line)
             ELSE FirstSummary(ls, i + 1)

\* get_latest_session(sessions_dir): the pair it returns, or the exception that
\* leaves it.
get_latest_session(f) ==
    IF ~f.sessions_exists
    THEN [raised |-> FALSE, name |-> None, summary |-> None]
    ELSE LET session_files == SessionFiles(f.session_names)
         IN  IF session_files = {}
             THEN [raised |-> FALSE, name |-> None, summary |-> None]
             ELSE LET latest == LatestOf(session_files)
                      read   == read_file_safely(f.log)
                  IN  IF read.raised
                      THEN [raised |-> TRUE, name |-> None, summary |-> None]
                      ELSE [raised  |-> FALSE,
                            name    |-> Some(latest),
                            summary |-> IF Truthy(read.value)
                                        THEN FirstSummary(split(read.value[1], "\n"), 1)
                                        ELSE None]

Intro == <<"T", "h", "i", "s", " ", "p", "r", "o", "j", "e", "c", "t", " ", "u", "s", "e", "s",
    " ", "*", "*", "D", "i", "r", "e", "c", "t", "i", "o", "n", "s", "*", "*", " ", "f", "o",
    "r", " ", "d", "o", "c", "u", "m", "e", "n", "t", "a", "t", "i", "o", "n", " ", "a", "n",
    "d", " ", "w", "o", "r", "k", "f", "l", "o", "w", ".">>

Trailer == <<"U", "s", "e", " ", Backquote, "/", "s", "t", "a", "t", "u", "s", Backquote, " ",
    "f", "o", "r", " ", "f", "u", "l", "l", " ", "d", "e", "t", "a", "i", "l", "s", " ", "o",
    "r", " ", Backquote, "/", "l", "o", "g", Backquote, " ", "t", "o", " ", "u", "p", "d", "a",
    "t", "e", " ", "t", "h", "e", " ", "s", "e", "s", "s", "i", "o", "n", " ", "l", "o", "g",
    ".">>

PhaseLabel == <<"*", "*", "C", "u", "r", "r", "e", "n", "t", " ", "P", "h", "a", "s", "e", ":",
    "*", "*", " ">>

FocusLabel == <<"*", "*", "C", "u", "r", "r", "e", "n", "t", " ", "F", "o", "c", "u", "s", ":",
    "*", "*", " ">>

BlockersLabel == <<"*", "*", "B", "l", "o", "c", "k", "e", "r", "s", ":", "*", "*", " ">>

SessionLabel == <<"*", "*", "L", "a", "s", "t", " ", "S", "e", "s", "s", "i", "o", "n", ":",
    "*", "*", " ">>

\* f"  _{session_summary}_"
SummaryLine(summary) == <<" ", " ", "_">> \o summary \o <<"_">>

\* A test that renders the line for every phase that is not None.
ShowsFieldIfNotNone(opt) == opt # None

\* if phase: / if focus:
ShowsField(opt) == Truthy(opt)

\* The parts list of lines 117-134.
MessageParts(ph, fo, bl, session, summary) ==
    <<Intro>>
    \o (IF ShowsField(ph) THEN <<PhaseLabel \o ph[1]>> ELSE <<>>)
    \o (IF ShowsField(fo) THEN <<FocusLabel \o fo[1]>> ELSE <<>>)
    \o (IF bl # <<>> THEN <<BlockersLabel \o join(<<",", " ">>, bl)>> ELSE <<>>)
    \o (IF Truthy(session)
        THEN <<SessionLabel \o session[1]>>
             \o (IF Truthy(summary) THEN <<SummaryLine(summary[1])>> ELSE <<>>)
        ELSE <<>>)
    \o << <<>>, Trailer >>

NonDirectionsMessage == <<"W", "h", "a", "t", " ", "w", "o", "u", "l", "d", " ", "y", "o", "u",
    " ", "l", "i", "k", "e", " ", "t", "o", " ", "d", "o", "?", "\n", "\n", "|", " ", "C", "o",
    "m", "m", "a", "n", "d", " ", "|", " ", "W", "h", "a", "t", " ", "i", "t", " ", "d", "o",
    "e", "s", " ", "|", "\n", "|", "-", "-", "-", "-", "-", "-", "-", "-", "-", "|", "-", "-",
    "-", "-", "-", "-", "-", "-", "-", "-", "-", "-", "|", "\n", "|", " ", Backquote, "/", "s",
    "e", "t", "u", "p", Backquote, " ", "|", " ", "D", "e", "t", "e", "c", "t", " ", "p", "r",
    "o", "j", "e", "c", "t", " ", "s", "t", "a", "t", "e", ",", " ", "s", "e", "t", " ", "u",
    "p", " ", "o", "r", " ", "m", "i", "g", "r", "a", "t", "e", " ", "D", "i", "r", "e", "c",
    "t", "i", "o", "n", "s", " ", "|", "\n", "|", " ", Backquote, "/", "s", "t", "a", "t", "u",
    "s", Backquote, " ", "|", " ", "C", "h", "e", "c", "k", " ", "c", "u", "r", "r", "e", "n",
    "t", " ", "p", "h", "a", "s", "e", ",", " ", "f", "o", "c", "u", "s", ",", " ", "b", "l",
    "o", "c", "k", "e", "r", "s", ",", " ", "l", "a", "s", "t", " ", "s", "e", "s", "s", "i",
    "o", "n", " ", "|", "\n", "|", " ", Backquote, "/", "l", "o", "g", Backquote, " ", "|", " ",
    "C", "r", "e", "a", "t", "e", " ", "o", "r", " ", "u", "p", "d", "a", "t", "e", " ", "t",
    "o", "d", "a", "y", "'", "s", " ", "s", "e", "s", "s", "i", "o", "n", " ", "l", "o", "g",
    " ", "|", "\n", "|", " ", Backquote, "/", "d", "e", "c", "i", "d", "e", Backquote, " ", "|",
    " ", "R", "e", "c", "o", "r", "d", " ", "a", "n", " ", "a", "r", "c", "h", "i", "t", "e",
    "c", "t", "u", "r", "a", "l", "/", "d", "e", "s", "i", "g", "n", " ", "d", "e", "c", "i",
    "s", "i", "o", "n", " ", "|", "\n", "|", " ", Backquote, "/", "i", "n", "t", "e", "r", "v",
    "i", "e", "w", Backquote, " ", "|", " ", "R", "u", "n", " ", "t", "h", "e", " ", "f", "u",
    "l", "l", " ", "d", "i", "s", "c", "o", "v", "e", "r", "y", " ", "i", "n", "t", "e", "r",
    "v", "i", "e", "w", " ", "|", "\n", "|", " ", Backquote, "/", "l", "e", "a", "r", "n", "e",
    "d", Backquote, " ", "|", " ", "A", "d", "d", " ", "a", " ", "t", "e", "r", "m", " ", "t",
    "o", " ", "y", "o", "u", "r", " ", "p", "e", "r", "s", "o", "n", "a", "l", " ", "g", "l",
    "o", "s", "s", "a", "r", "y", " ", "|", "\n", "|", " ", Backquote, "/", "r", "e", "o", "r",
    "g", Backquote, " ", "|", " ", "R", "e", "o", "r", "g", "a", "n", "i", "z", "e", " ", "f",
    "o", "l", "d", "e", "r", " ", "s", "t", "r", "u", "c", "t", "u", "r", "e", " ", "(", "n",
    "u", "m", "b", "e", "r", "e", "d", " ", "f", "o", "l", "d", "e", "r", "s", ")", " ", "|",
    "\n", "|", " ", Backquote, "/", "u", "p", "d", "a", "t", "e", "-", "d", "i", "r", "e", "c",
    "t", "i", "o", "n", "s", Backquote, " ", "|", " ", "P", "u", "l", "l", " ", "l", "a", "t",
    "e", "s", "t", " ", "D", "i", "r", "e", "c", "t", "i", "o", "n", "s", " ", "f", "r", "o",
    "m", " ", "G", "i", "t", "H", "u", "b", " ", "|", "\n", "\n", "O", "r", " ", "j", "u", "s",
    "t", " ", "t", "e", "l", "l", " ", "m", "e", " ", "w", "h", "a", "t", " ", "y", "o", "u",
    "'", "r", "e", " ", "w", "o", "r", "k", "i", "n", "g", " ", "o", "n", ".">>

\* main, lines 149-155: is docs/00_base.md there?
Main ==
    /\ pc = "main"
    /\ IF fs.base
       THEN /\ pc' = "read_state"
            /\ result' = result
       ELSE /\ result' = Some([message |-> NonDirectionsMessage])
            /\ pc' = "print"
    /\ UNCHANGED <<routerVars, extractVars, fs, state_content, latest_session, session_summary,
                   parts, stdout>>

\* build_context_message, lines 102-108: read PROJECT_STATE.md
ReadState ==
    /\ pc = "read_state"
    /\ ~read_file_safely(fs.state).raised
    /\ state_content' = read_file_safely(fs.state).value
    /\ phase' = None
    /\ focus' = None
    /\ blockers' = <<>>
    /\ pc' = IF Truthy(state_content') THEN "phase" ELSE "session"
    /\ UNCHANGED <<routerVars, lines, idx, in_blockers, fs, latest_session, session_summary,
                   parts, result, stdout>>

\* An exception read_file_safely does not catch leaves build_context_message and main.
ReadStateRaises ==
    /\ pc = "read_state"
    /\ read_file_safely(fs.state).raised
    /\ pc' = "aborted"
    /\ UNCHANGED <<routerVars, extractVars, sessionVars>>

\* build_context_message, line 114
GetLatestSession ==
    /\ pc = "session"
    /\ ~get_latest_session(fs).raised
    /\ latest_session' = get_latest_session(fs).name
    /\ session_summary' = get_latest_session(fs).summary
    /\ pc' = "compose"
    /\ UNCHANGED <<routerVars, extractVars, fs, state_content, parts, result, stdout>>

\* The read of the log file raises what read_file_safely does not catch.
GetLatestSessionRaises ==
    /\ pc = "session"
    /\ get_latest_session(fs).raised
    /\ pc' = "aborted"
    /\ UNCHANGED <<routerVars, extractVars, sessionVars>>

\* build_context_message, lines 117-138
BuildMessage ==
    /\ pc = "compose"
    /\ parts' = MessageParts(phase, focus, blockers, latest_session, session_summary)
    /\ result' = Some([message |-> join(<<"\n">>, parts')])
    /\ pc' = "print"
    /\ UNCHANGED <<routerVars, extractVars, fs, state_content, latest_session, session_summary,
        stdout>>

\* main, line 158: print(json.dumps(result))
PrintResult ==
    /\ pc = "print"
    /\ stdout' = Append(stdout, result[1])
    /\ pc' = "done"
    /\ UNCHANGED <<routerVars, extractVars, fs, state_content, latest_session, session_summary,
                   parts, result>>

(***************************************************************************)
(* The inputs and the three specifications                                 *)
(***************************************************************************)
\* Status documents are made of at most this many field lines ...
MaxFieldLines == 3

\* ... or of at most this many lines of a blockers section.
MaxBlockerLines == 4

FieldLines == { <<"*", "*", "P", "h", "a", "s", "e", ":", "*", "*", " ", "B", "u", "i", "l",
    "d">>, <<"*", "*", "F", "o", "c", "u", "s", ":", "*", "*", " ", "A", "u", "t", "h">>, <<"P",
    "h", "a", "s", "e", ":", " ", "B", "u", "i", "l", "d", " ">>,
                <<"C", "u", "r", "r", "e", "n", "t", " ", "P", "h", "a", "s", "e", ":", " ",
                    "T", "e", "s", "t">>, <<"#", "#", " ", "C", "u", "r", "r", "e", "n", "t",
                    " ", "F", "o", "c", "u", "s">>, <<"F", "o", "c", "u", "s", ":", " ", "*",
                    "*", "A", "u", "t", "h", "*", "*">> }

BlockerLines == { <<"#", "#", " ", "B", "l", "o", "c", "k", "e", "r", "s">>, <<"-", " ", "A",
    "P", "I", " ", "r", "a", "t", "e", " ", "l", "i", "m", "i", "t", "s">>, <<"-", " ", "n",
    "o", "n", "e">>, <<"-", " ", "N", "o", "n", "e">>,
                  <<"#", "#", " ", "N", "e", "x", "t">>, <<"-">>, <<"*", " ", "b", "l", "o",
                      "c", "k", "e", "r", " ", "#", "2">> }

RECURSIVE DocsOfLen(_, _)
\* The documents of exactly n lines taken from ls.
DocsOfLen(ls, n) ==
    IF n = 1 THEN ls
    ELSE {d \o <<"\n">> \o l : d \in DocsOfLen(ls, n - 1), l \in ls}

DocsUpTo(ls, n) == UNION {DocsOfLen(ls, k) : k \in 1..n}

Documents == DocsUpTo(FieldLines, MaxFieldLines) \cup DocsUpTo(BlockerLines, MaxBlockerLines)

\* The status documents of the session-start runs.
SessionDocs == {
    <<>>,
    <<"#", " ", "N", "o", "t", "e", "s">>,
    <<"*", "*", "P", "h", "a", "s", "e", ":", "*", "*", " ", "B", "u", "i", "l", "d", "\n", "*",
        "*", "F", "o", "c", "u", "s", ":", "*", "*", " ", "A", "u", "t", "h">>,
    <<"P", "h", "a", "s", "e", ":", "\n", "F", "o", "c", "u", "s", ":", " ", "A", "u", "t", "h",
        "\n", "#", "#", " ", "B", "l", "o", "c", "k", "e", "r", "s", "\n", "-", " ", "N", "o",
        "n", "e">>,
    <<"P", "h", "a", "s", "e", ":", " ", "B", "u", "i", "l", "d", "\n", "F", "o", "c", "u", "s",
        ":", " ", "A", "u", "t", "h", "\n", "#", "#", " ", "B", "l", "o", "c", "k", "e", "r",
        "s", "\n", "-", " ", "A", "P", "I", " ", "r", "a", "t", "e", " ", "l", "i", "m", "i",
        "t", "s", "\n", "-", " ", "n", "o", "n", "e", "\n", "#", "#", " ", "N", "e", "x",
        "t">> }

LogNames == { <<"2", "0", "2", "4", "-", "0", "1", "-", "0", "2", ".", "m", "d">>, <<"2", "0",
    "2", "4", "-", "0", "3", "-", "1", "0", ".", "m", "d">>, <<"_", "i", "n", "d", "e", "x",
    ".", "m", "d">>, <<"n", "o", "t", "e", "s", ".", "t", "x", "t">> }

LogTexts == {
    <<>>,
    <<"#", " ", "T", "i", "t", "l", "e", "\n", "s", "h", "o", "r", "t">>,
    <<"#", " ", "S", "e", "s", "s", "i", "o", "n", "\n", "\n", " ", " ", "F", "i", "x", "e",
        "d", " ", "t", "h", "e", " ", "l", "o", "g", "i", "n", " ", "f", "l", "o", "w">>,
    <<"x", "x", "x", "x", "x", "x", "x", "x", "x", "x", "x", "x", "x", "x", "x", "x", "x", "x",
        "x", "x", "x", "x", "x", "x", "x", "x", "x", "x", "x", "x", "x", "x", "x", "x", "x",
        "x", "x", "x", "x", "x", "x", "x", "x", "x", "x", "x", "x", "x", "x", "x", "x", "x",
        "x", "x", "x", "x", "x", "x", "x", "x", "x", "x", "x", "x", "x", "x", "x", "x", "x",
        "x", "x", "x", "x", "x", "x", "x", "x", "x", "x", "x", "x", "x", "x", "x", "x", "x",
        "x", "x", "x", "x", "x", "x", "x", "x", "x", "x", "x", "x", "x", "x", "x">> }

Unreadable == {[status |-> s, text |-> <<>>] : s \in FileStatus \ {"ok"}}

StateFiles == {[status |-> "ok", text |-> d] : d \in SessionDocs} \cup Unreadable

LogFiles == {[status |-> "ok", text |-> t] : t \in LogTexts} \cup Unreadable

NoFile == [status |-> "missing", text |-> <<>>]

\* The log file that is read, where the directory holds one to select.
LogFilesFor(names) == IF SessionFiles(names) # {} THEN LogFiles ELSE {NoFile}

\* The projects session-start runs in: without docs/00_base.md, and with it, with
\* every status document, with or without docs/sessions, with every set of entries
\* and, where a log file is selected, every log file.
FileSystems ==
    {[base |-> FALSE, state |-> s, sessions_exists |-> FALSE, session_names |-> {},
      log |-> NoFile] : s \in StateFiles}
    \cup
    {[base |-> TRUE, state |-> s, sessions_exists |-> FALSE, session_names |-> {},
      log |-> NoFile] : s \in StateFiles}
    \cup
    UNION {{[base |-> TRUE, state |-> s, sessions_exists |-> TRUE, session_names |-> n,
             log |-> l] : s \in StateFiles, l \in LogFilesFor(n)} : n \in SUBSET LogNames}

NoFs == [base |-> FALSE, state |-> NoFile, sessions_exists |-> FALSE,
         session_names |-> {}, log |-> NoFile]

RouterIdle == prompt = <<>> /\ match = None /\ rpc = "idle"

ExtractBlank ==
    /\ phase = None /\ focus = None
    /\ lines = <<>> /\ idx = 1 /\ in_blockers = FALSE /\ blockers = <<>>

SessionBlank ==
    /\ latest_session = None /\ session_summary = None
    /\ parts = <<>> /\ result = None /\ stdout = <<>>

\* doc-suggester: find_matching_doc is called with a prompt.
InitRouter ==
    /\ RouterInit
    /\ fs = NoFs /\ state_content = None /\ ExtractBlank /\ SessionBlank
    /\ pc = "idle"

\* build_context_message has read a status document and is at line 109.
InitExtract ==
    /\ RouterIdle
    /\ \E d \in Documents :
        /\ fs = [base |-> TRUE, state |-> [status |-> "ok", text |-> d],
                 sessions_exists |-> FALSE, session_names |-> {}, log |-> NoFile]
        /\ state_content = Some(d)
    /\ ExtractBlank /\ SessionBlank
    /\ pc = "phase"

\* session-start is started in a project.
InitSession ==
    /\ RouterIdle
    /\ fs \in FileSystems
    /\ state_content = None /\ ExtractBlank /\ SessionBlank
    /\ pc = "main"

NextRouter == FindMatchingDoc

NextExtract == ExtractStep

NextSession ==
    \/ Main
    \/ ReadState
    \/ ReadStateRaises
    \/ ExtractStep
    \/ GetLatestSession
    \/ GetLatestSessionRaises
    \/ BuildMessage
    \/ PrintResult

SpecRouter == InitRouter /\ [][NextRouter]_vars

SpecExtract == InitExtract /\ [][NextExtract]_vars

SpecSession == InitSession /\ [][NextSession]_vars

Init == InitRouter \/ InitExtract \/ InitSession

Next == NextRouter \/ NextSession

Spec == Init /\ [][Next]_vars

(***************************************************************************)
(* Properties of find_matching_doc                                         *)
(***************************************************************************)
\* The upper-case letter of each lower-case letter.
UpperOf == [c \in Range(LowerCase) |-> UpperCase[IndexOf(LowerCase, c)]]

\* The lower-case text kw stands at position i of s in some casing.
StandsAtAnyCase(kw, s, i) ==
    /\ i >= 1 /\ i + Len(kw) - 1 <= Len(s)
    /\ \A j \in 1..Len(kw) :
        \/ s[i + j - 1] = kw[j]
        \/ kw[j] \in DOMAIN UpperOf /\ s[i + j - 1] = UpperOf[kw[j]]

\* The text kw occurs in s in some casing.
OccursAnyCase(kw, s) == \E i \in 1..Len(s) : StandsAtAnyCase(kw, s, i)

Alphanumeric == Range(UpperCase) \cup Range(LowerCase) \cup Range(Digits)

\* kw occurs in s, in some casing, with a non-alphanumeric character or the edge
\* of the text on either side.
OccursAsToken(kw, s) ==
    \E i \in 1..Len(s) :
        /\ StandsAtAnyCase(kw, s, i)
        /\ i = 1 \/ s[i - 1] \notin Alphanumeric
        /\ i + Len(kw) - 1 = Len(s) \/ s[i + Len(kw)] \notin Alphanumeric

\* The rules of which some keyword matches the prompt.
MatchingRules(p) ==
    {r \in 1..Len(DOC_MAPPINGS) :
        \E k \in 1..Len(DOC_MAPPINGS[r].keywords) :
            KeywordHit(DOC_MAPPINGS[r].keywords[k], lower(p))}

\* The position of the first character of the first occurrence of a keyword of
\* rule r in the prompt (0: none occurs).
FirstOccurrence(r, p) ==
    LET at == {i \in 1..Len(p) :
                  \E k \in 1..Len(DOC_MAPPINGS[r].keywords) :
                      StandsAtAnyCase(DOC_MAPPINGS[r].keywords[k], p, i)}
    IN  IF at = {} THEN 0 ELSE CHOOSE i \in at : \A j \in at : i <= j

\* C1: find_matching_doc returns the matching rule that comes first in the table,
\* wherever the keywords stand in the prompt, and None only when no keyword of any
\* rule matches.
C1_FirstRuleInTableOrder ==
    rpc = "returned" =>
        LET M == MatchingRules(prompt)
        IN  IF M = {} THEN match = None
            ELSE /\ match # None
                 /\ \E r \in M : match[1] = DOC_MAPPINGS[r] /\ \A q \in M : r <= q

\* C1's case: keywords of two rules match and the keyword of the later rule stands
\* before the keyword of the earlier rule, which is returned.
C1_Witness ==
    /\ rpc = "returned"
    /\ \E r, q \in MatchingRules(prompt) :
        /\ r < q
        /\ match = Some(DOC_MAPPINGS[r])
        /\ FirstOccurrence(q, prompt) < FirstOccurrence(r, prompt)

DebuggingRule == CHOOSE r \in 1..Len(DOC_MAPPINGS) : DOC_MAPPINGS[r].doc = "31_debugging.md"

\* C2 as stated: every prompt that contains "crash" in some casing is routed to the
\* debugging rule, whatever surrounds it.
C2_CrashAlwaysDebugging ==
    (rpc = "returned" /\ OccursAnyCase(<<"c", "r", "a", "s", "h">>, prompt)) =>
        match = Some(DOC_MAPPINGS[DebuggingRule])

\* C2 amended: a prompt that contains "crash" in some casing is routed to the
\* debugging rule unless a keyword of a rule that precedes it in the table matches.
C2_CrashDebuggingUnlessEarlierRule ==
    (/\ rpc = "returned"
     /\ OccursAnyCase(<<"c", "r", "a", "s", "h">>, prompt)
     /\ \A r \in MatchingRules(prompt) : r >= DebuggingRule) =>
        match = Some(DOC_MAPPINGS[DebuggingRule])

\* C2's case: "crash" in mixed casing inside other text, routed to debugging.
C2_Witness ==
    /\ rpc = "returned"
    /\ OccursAnyCase(<<"c", "r", "a", "s", "h">>, prompt) /\ ~Contains(<<"c", "r", "a", "s",
        "h">>, prompt)
    /\ Len(prompt) > 5
    /\ match = Some(DOC_MAPPINGS[DebuggingRule])

\* The matching policy of a keyword as the specification words it.
PolicyHit(kw, p) ==
    IF Len(kw) <= 4 THEN OccursAsToken(kw, p) ELSE OccursAnyCase(kw, p)

\* C3: a rule is returned only for a keyword that, if it has at most 4 characters,
\* stands between word boundaries, never inside a longer token ("pray" yields no
\* rule), and a keyword of more than 4 characters matches anywhere in the prompt
\* in any casing.
C3_ShortKeywordsNeedWordBoundaries ==
    rpc = "returned" =>
        /\ match # None =>
              \E k \in 1..Len(match[1].keywords) : PolicyHit(match[1].keywords[k], prompt)
        /\ (\E r \in 1..Len(DOC_MAPPINGS) : \E k \in 1..Len(DOC_MAPPINGS[r].keywords) :
               /\ Len(DOC_MAPPINGS[r].keywords[k]) > 4
               /\ OccursAnyCase(DOC_MAPPINGS[r].keywords[k], prompt))
           => match # None
        /\ prompt = <<"p", "r", "a", "y">> => match = None

\* C3's case: the prompt "pray" has been routed.
C3_Witness == rpc = "returned" /\ prompt = <<"p", "r", "a", "y">> /\ match = None

(***************************************************************************)
(* Properties of the extractors                                            *)
(***************************************************************************)
DocLines == split(state_content[1], "\n")

IsLabelLine(line, word) ==
    startswith(line, <<"*", "*">> \o word \o <<":", "*", "*">>) \/ startswith(line,
        word \o <<":">>)

\* What follows the label of a literal-label line.
AfterLabel(line, word) ==
    IF startswith(line, <<"*", "*">> \o word \o <<":", "*", "*">>)
    THEN SubSeq(line, Len(word) + 6, Len(line))
    ELSE SubSeq(line, Len(word) + 2, Len(line))

\* A value with the surrounding whitespace and bold markers removed.
Trimmed(v) == strip_chars(v, Whitespace \cup {"*"})

\* The first line that decides a field: a literal-label line or a phrase line.
FirstDeciding(ls, word) ==
    LET S == {k \in 1..Len(ls) :
                 IsLabelLine(ls[k], word)
                 \/ OccursAnyCase(<<"c", "u", "r", "r", "e", "n", "t", " ">> \o lower(word),
                     ls[k])}
    IN  IF S = {} THEN 0 ELSE CHOOSE k \in S : \A j \in S : k <= j

FieldIsTrimmedLabelValue(value, word) ==
    LET k == FirstDeciding(DocLines, word)
    IN  (k > 0 /\ IsLabelLine(DocLines[k], word)) =>
            value = Some(Trimmed(AfterLabel(DocLines[k], word)))

\* C4: where a literal-label line (Phase: or **Phase:**, Focus: or **Focus:**)
\* decides the field, the extracted value is what follows the label with the
\* surrounding whitespace and bold markers removed.
C4_LabelValueIsTrimmed ==
    pc \in {"blockers", "loop", "session"} =>
        /\ FieldIsTrimmedLabelValue(phase, <<"P", "h", "a", "s", "e">>)
        /\ FieldIsTrimmedLabelValue(focus, <<"F", "o", "c", "u", "s">>)

FieldIsFirstLabelValue(value, word) ==
    LET S == {k \in 1..Len(DocLines) : IsLabelLine(DocLines[k], word)}
    IN  S # {} => value = Some(LabelValue(DocLines[CHOOSE k \in S : \A j \in S : k <= j]))

\* C5: where the document holds a literal-label line, the field is the value of the
\* first such line, wherever a "current phase" / "current focus" line stands.
C5_LabelLineBeforePhraseLine ==
    pc \in {"blockers", "loop", "session"} =>
        /\ FieldIsFirstLabelValue(phase, <<"P", "h", "a", "s", "e">>)
        /\ FieldIsFirstLabelValue(focus, <<"F", "o", "c", "u", "s">>)

\* The least element of a set of line numbers, none when the set is empty.
FirstOf(S, none) == IF S = {} THEN none ELSE CHOOSE k \in S : \A j \in S : k <= j

\* The first trigger line (beyond the last line: there is none).
TriggerAt(ls) == FirstOf({k \in 1..Len(ls) : IsTrigger(ls[k])}, Len(ls) + 1)

\* The first heading line after the trigger line.
NextHeading(ls) ==
    FirstOf({k \in (TriggerAt(ls) + 1)..Len(ls) : startswith(ls[k], <<"#">>)}, Len(ls) + 1)

\* The first heading line after the trigger line that is no trigger line itself.
NextPlainHeading(ls) ==
    FirstOf({k \in (TriggerAt(ls) + 1)..Len(ls) :
                startswith(ls[k], <<"#">>) /\ ~IsTrigger(ls[k])}, Len(ls) + 1)

\* A line that starts with a bullet marker, and its text without the marker.
StartsWithBullet(line) == strip(line) # <<>> /\ Head(strip(line)) \in {"-", "*"}

BulletText(line) == strip(lstrip_chars(strip(line), {"-", "*"}))

IsNone(v) == Len(v) = 4 /\ StandsAtAnyCase(<<"n", "o", "n", "e">>, v, 1)

\* A bullet line that reads something other than "none".
IsStatedBlocker(line) == StartsWithBullet(line) /\ ~IsNone(BulletText(line))

\* A bullet line that is no trigger line and reads something other than "none".
IsKeptBlocker(line) ==
    /\ StartsWithBullet(line) /\ ~IsTrigger(line)
    /\ BulletText(line) # <<>> /\ ~IsNone(BulletText(line))

RECURSIVE BulletsOf(_, _, _, _)
\* The texts of the selected lines among from..to of ls, in order; amended tells
\* which selection applies.
BulletsOf(ls, from, to, amended) ==
    IF from > to THEN <<>>
    ELSE (IF (amended /\ IsKeptBlocker(ls[from])) \/ (~amended /\ IsStatedBlocker(ls[from]))
          THEN <<BulletText(ls[from])>>
          ELSE <<>>)
         \o BulletsOf(ls, from + 1, to, amended)

\* C6 as stated: the blockers are the texts of all bullet lines between the trigger
\* line and the next heading line, in order, except those that read "none".
C6_EveryBulletButNone ==
    pc = "session" =>
        blockers = BulletsOf(DocLines, TriggerAt(DocLines) + 1,
                             NextHeading(DocLines) - 1, FALSE)

\* C6 amended: the blockers are the texts of the bullet lines between the first
\* trigger line and the next heading line that is no trigger line, in order, except
\* the bullet lines that are trigger lines themselves, those with no text after
\* the markers, and those that read "none" in any casing.
C6_BulletsButNoneEmptyAndTriggers ==
    pc = "session" =>
        blockers = BulletsOf(DocLines, TriggerAt(DocLines) + 1,
                             NextPlainHeading(DocLines) - 1, TRUE)

\* C6's case: the section with the bullets "API rate limits" and "none", closed by
\* a heading, has been scanned.
C6_Witness ==
    /\ pc = "session"
    /\ state_content = Some(<<"#", "#", " ", "B", "l", "o", "c", "k", "e", "r", "s", "\n", "-",
        " ", "A", "P", "I", " ", "r", "a", "t", "e", " ", "l", "i", "m", "i", "t", "s", "\n",
        "-", " ", "n", "o", "n", "e", "\n", "#", "#", " ", "N", "e", "x", "t">>)
    /\ blockers = << <<"A", "P", "I", " ", "r", "a", "t", "e", " ", "l", "i", "m", "i", "t",
        "s">> >>

\* Every blocker is the text of a bullet line between the trigger line and line h.
BlockersComeFromBefore(h) ==
    \A b \in 1..Len(blockers) :
        \E k \in (TriggerAt(lines) + 1)..(h - 1) :
            StartsWithBullet(lines[k]) /\ BulletText(lines[k]) = blockers[b]

\* C10 as stated: the first heading line after the trigger line ends blocker mode:
\* every blocker comes from a bullet line before it.
C10_HeadingEndsBlockerMode ==
    pc \in {"loop", "session"} =>
        BlockersComeFromBefore(NextHeading(lines))

\* C10 amended: the first heading line after the trigger line that is not itself a
\* trigger line ends blocker mode: the scan stops there and collects nothing from
\* the lines after it.
C10_PlainHeadingEndsBlockerMode ==
    pc \in {"loop", "session"} =>
        /\ idx <= NextPlainHeading(lines)
        /\ BlockersComeFromBefore(NextPlainHeading(lines))

\* C10's case: a bullet line with a text stands after the heading that closed the
\* section, and its text is no blocker.
C10_Witness ==
    /\ pc = "session"
    /\ \E k \in (NextPlainHeading(lines) + 1)..Len(lines) :
        /\ IsKeptBlocker(lines[k])
        /\ \A b \in 1..Len(blockers) : blockers[b] # BulletText(lines[k])

(***************************************************************************)
(* Properties of session-start                                             *)
(***************************************************************************)
\* get_latest_session has returned.
SessionReturned == pc \in {"compose", "print", "done"} /\ fs.base

\* The .md entries of the log directory other than _index.md.
Qualifying == {n \in fs.session_names : endswith(n, <<".", "m", "d">>) /\ n # <<"_", "i", "n",
    "d", "e", "x", ".", "m", "d">>}

\* a comes after b in lexicographic order: at the first position where they differ
\* a has the greater character, or b is a proper prefix of a.
ComesAfter(a, b) ==
    \/ Len(a) > Len(b) /\ SubSeq(a, 1, Len(b)) = b
    \/ \E i \in 1..Len(a) :
        /\ i <= Len(b)
        /\ SubSeq(a, 1, i - 1) = SubSeq(b, 1, i - 1)
        /\ CodePoint(a[i]) > CodePoint(b[i])

\* C7: the selected log file is the qualifying entry whose name is greatest in
\* lexicographic order, never _index.md, and nothing is selected when the directory
\* does not exist or holds no qualifying entry.
C7_LatestIsGreatestName ==
    SessionReturned =>
        IF ~fs.sessions_exists \/ Qualifying = {}
        THEN latest_session = None /\ session_summary = None
        ELSE /\ latest_session # None
             /\ latest_session[1] \in Qualifying
             /\ latest_session[1] # <<"_", "i", "n", "d", "e", "x", ".", "m", "d">>
             /\ \A n \in Qualifying : ~ComesAfter(n, latest_session[1])
             /\ { <<"2", "0", "2", "4", "-", "0", "1", "-", "0", "2", ".", "m", "d">>, <<"2",
                 "0", "2", "4", "-", "0", "3", "-", "1", "0", ".", "m", "d">> } = Qualifying
                    => latest_session = Some(<<"2", "0", "2", "4", "-", "0", "3", "-", "1", "0",
                        ".", "m", "d">>)

\* C7's case: the directory holds 2024-01-02.md, 2024-03-10.md and _index.md.
C7_Witness ==
    /\ SessionReturned
    /\ fs.session_names = { <<"2", "0", "2", "4", "-", "0", "1", "-", "0", "2", ".", "m", "d">>,
        <<"2", "0", "2", "4", "-", "0", "3", "-", "1", "0", ".", "m", "d">>, <<"_", "i", "n",
        "d", "e", "x", ".", "m", "d">> }
    /\ latest_session = Some(<<"2", "0", "2", "4", "-", "0", "3", "-", "1", "0", ".", "m",
        "d">>)

\* The positions of the parts that start with a label.
LinesWith(label) == {i \in 1..Len(parts) : startswith(parts[i], label)}

\* The message is laid out: the introductory line, the lines of `shown` in the
\* order phase, focus, blockers, session, summary, an empty line and the trailing
\* line, joined by newlines.
LaidOut(shown) ==
    LET at(label) == CHOOSE i \in LinesWith(label) : TRUE
        order == << PhaseLabel, FocusLabel, BlockersLabel, SessionLabel, <<" ", " ", "_">> >>
    IN  /\ parts[1] = Intro
        /\ parts[Len(parts) - 1] = <<>>
        /\ parts[Len(parts)] = Trailer
        /\ Len(parts) = 3 + Cardinality({k \in 1..5 : shown[k]})
        /\ \A k \in 1..5 : Cardinality(LinesWith(order[k])) = IF shown[k] THEN 1 ELSE 0
        /\ \A j, k \in 1..5 : (j < k /\ shown[j] /\ shown[k]) => at(order[j]) < at(order[k])
        /\ result = Some([message |-> join(<<"\n">>, parts)])

\* The text of each line that is shown.
LineTexts ==
    /\ \A i \in LinesWith(PhaseLabel) : parts[i] = PhaseLabel \o phase[1]
    /\ \A i \in LinesWith(FocusLabel) : parts[i] = FocusLabel \o focus[1]
    /\ \A i \in LinesWith(BlockersLabel) : parts[i] = BlockersLabel \o join(<<",", " ">>,
        blockers)
    /\ \A i \in LinesWith(SessionLabel) : parts[i] = SessionLabel \o latest_session[1]
    /\ \A i \in LinesWith(<<" ", " ", "_">>) : parts[i] = <<" ", " ",
        "_">> \o session_summary[1] \o <<"_">>

\* build_context_message has returned.
MessageBuilt == pc \in {"print", "done"} /\ fs.base

\* C8 as stated: the message holds the phase line iff the phase is present, the
\* focus line iff the focus is present, the blockers line iff there are blockers,
\* the session line iff a session was found and the summary line iff it has a
\* summary, in that order between the introductory and the trailing lines.
C8_LineIffPresent ==
    MessageBuilt =>
        LaidOut(<< phase # None, focus # None, blockers # <<>>,
                   latest_session # None, session_summary # None >>)

\* C8 amended: the same, where a phase or a focus that is the empty string (a
\* label line with nothing after the label) counts as absent, and the trailing
\* line is preceded by an empty line.
C8_LineIffPresentAndNotEmpty ==
    MessageBuilt =>
        /\ LaidOut(<< phase # None /\ phase # Some(<<>>),
                      focus # None /\ focus # Some(<<>>),
                      blockers # <<>>,
                      latest_session # None,
                      session_summary # None >>)
        /\ LineTexts
        /\ (phase = None /\ focus = None /\ blockers = <<>> /\ latest_session = None)
               => parts = <<Intro, <<>>, Trailer>>

\* C8's case: a message with all five lines has been built.
C8_Witness ==
    /\ MessageBuilt
    /\ Truthy(phase) /\ Truthy(focus) /\ blockers # <<>>
    /\ latest_session # None /\ session_summary # None
    /\ Len(parts) = 8

\* The ways a file is unreadable that read_file_safely turns into absence.
Absorbed == {"ok", "missing", "denied"}

\* C9: with the status document and the log file each readable, missing or
\* permission-denied, the run never aborts, it has a next step until it has printed
\* (the three extractor calls have no condition but the position), and it prints
\* exactly one object with a message; an unreadable status document leaves
\* phase, focus and blockers absent while the session is still looked up, and an
\* unreadable log file leaves the file name with no summary.
C9_UnreadableIsAbsence ==
    (fs.state.status \in Absorbed /\ fs.log.status \in Absorbed) =>
        /\ pc # "aborted"
        /\ pc \in {"done", "phase", "focus", "blockers"} \/ ENABLED NextSession
        /\ Len(stdout) = IF pc = "done" THEN 1 ELSE 0
        /\ pc = "done" => stdout[1].message # <<>>
        /\ (SessionReturned /\ fs.state.status # "ok") =>
              /\ phase = None /\ focus = None /\ blockers = <<>>
              /\ (fs.sessions_exists /\ Qualifying # {}) => latest_session # None
        /\ (SessionReturned /\ fs.sessions_exists /\ Qualifying # {}
               /\ fs.log.status # "ok") =>
              latest_session # None /\ session_summary = None

\* C9's case: the status document is permission-denied, the selected log file is
\* gone when it is read, and the run has printed.
C9_Witness ==
    /\ pc = "done" /\ fs.base
    /\ fs.state.status = "denied" /\ fs.log.status = "missing"
    /\ latest_session # None /\ session_summary = None
    /\ Len(stdout) = 1

=============================================================================
